---- MODULE Spec2Model ----
(***************************************************************************)
(* Model of the "switcher" first-stage bootloader (src/src/switcher.h):    *)
(* two image headers in flash, switcher_choose / switcher_boot as called   *)
(* by main, and the running image marking its own header.                  *)
(***************************************************************************)
EXTENDS Integers, FiniteSets, Sequences, TLC

\* ------------------------------------------------------------------------
\* Program constants
\* ------------------------------------------------------------------------
\* #define HEADER_ADDR_A 0x0007FFF8
HEADER_ADDR_A == 524280
\* #define HEADER_ADDR_B 0x000FFFF8
HEADER_ADDR_B == 1048568
\* width of the nAttempts bit-field (uint8_t nAttempts:4)
AttemptBits == 4
\* the NULL pointer
NULL == 0

\* ------------------------------------------------------------------------
\* Bounds of the model
\* ------------------------------------------------------------------------
\* versions of the flashed images range over 1..MaxVersion
MaxVersion == 2
\* the count of crc_24 invocations per header is kept up to MaxCrcCount
MaxCrcCount == 2

Headers == {HEADER_ADDR_A, HEADER_ADDR_B}
Bit == {0, 1}
AttemptRange == 2 ^ AttemptBits
\* attempts values a header is found with at power-on: exhausted, a pattern
\* that is not a run of high bits, and the full budget
InitAttempts == {0, 5, AttemptRange - 1}
\* digest of the image body found in flash: equal to the stored checksum
\* (intact image) or not (corrupt image)
StoredChecksum == [h \in Headers |-> IF h = HEADER_ADDR_A THEN 7 ELSE 9]
ImageLength == [h \in Headers |-> IF h = HEADER_ADDR_A THEN 4096 ELSE 8192]

VARIABLES
    hdr,         \* flash: header address -> image_t
    body,        \* flash: header address -> digest of the image bytes before it
    pc,          \* position of the boot ROM: "main", "boot", "image", "halt"
    a, b,        \* arguments of the last switcher_choose call
    can_boot_a,  \* locals of the last switcher_choose call
    can_boot_b,
    ret,         \* value returned by the last switcher_choose call
    crcRuns,     \* header address -> crc_24 invocations in the last choose
    ip,          \* instruction pointer after the control transfer (0: none)
    running,     \* header of the image that has control (NULL: none)
    boots,       \* header address -> dispatches made while nSuccess was set
    verified,    \* header address -> crc_24 invocations so far (up to MaxCrcCount)
    flashed,     \* the headers as they were found at the first power-on
    lost         \* as main starts: where the run before lost power ("none":
                 \* it did not); forgotten once switcher_choose has run

vars == <<hdr, body, pc, a, b, can_boot_a, can_boot_b, ret, crcRuns, ip,
          running, boots, verified, flashed, lost>>

\* image_t: the packed header
ImageT == [checksum : 0 .. 15, version : 1 .. MaxVersion, length : {4096, 8192},
           nValid : Bit, nInvalid : Bit, nSuccess : Bit, nFailure : Bit,
           nAttempts : 0 .. AttemptRange - 1]

\* a header as the flashing tool is documented to write it: all status bits 1
Fresh(h) == /\ h.nValid = 1 /\ h.nInvalid = 1 /\ h.nSuccess = 1
            /\ h.nFailure = 1 /\ h.nAttempts = AttemptRange - 1

\* crc_24 over the image and its checksum: the remainder is zero exactly when
\* the stored checksum is the digest of the image bytes
crc_24(data, checksum) == (data + 2 ^ 24 - checksum) % (2 ^ 24)

\* _image_start: the header directly follows its image
image_start(h, image) == image - h[image].length

\* _checksum_valid
checksum_valid(h, d, image) == crc_24(d[image], h[image].checksum) = 0

\* _can_boot returning true at its end, without looking at nAttempts
can_boot_ignore_attempts(h, d, image) ==
    IF h[image].nFailure = 0
    THEN [ok |-> FALSE, hdr |-> h, crc |-> 0]
    ELSE IF h[image].nSuccess = 0
    THEN [ok |-> TRUE, hdr |-> h, crc |-> 0]
    ELSE IF h[image].nValid = 1
    THEN IF h[image].nInvalid = 1
         THEN [ok |-> FALSE, hdr |-> h, crc |-> 0]
         ELSE IF ~checksum_valid(h, d, image)
         THEN [ok |-> FALSE,
               hdr |-> [h EXCEPT ![image].nInvalid = 0],
               crc |-> 1]
         ELSE [ok |-> TRUE,
               hdr |-> [h EXCEPT ![image].nValid = 0],
               crc |-> 1]
    ELSE [ok |-> TRUE, hdr |-> h, crc |-> 0]

\* _can_boot recording a passed checksum by setting nInvalid as well as
\* clearing nValid
can_boot_rearm(h, d, image) ==
    IF h[image].nFailure = 0
    THEN [ok |-> FALSE, hdr |-> h, crc |-> 0]
    ELSE IF h[image].nSuccess = 0
    THEN [ok |-> TRUE, hdr |-> h, crc |-> 0]
    ELSE IF h[image].nValid = 1
    THEN IF h[image].nInvalid = 1
         THEN [ok |-> FALSE, hdr |-> h, crc |-> 0]
         ELSE IF ~checksum_valid(h, d, image)
         THEN [ok |-> FALSE,
               hdr |-> [h EXCEPT ![image].nInvalid = 0],
               crc |-> 1]
         ELSE [ok |-> h[image].nAttempts # 0,
               hdr |-> [h EXCEPT ![image].nValid = 0, ![image].nInvalid = 1],
               crc |-> 1]
    ELSE [ok |-> h[image].nAttempts # 0, hdr |-> h, crc |-> 0]

\* _can_boot without the nInvalid test in front of the checksum verification
can_boot_no_invalid_test(h, d, image) ==
    IF h[image].nFailure = 0
    THEN [ok |-> FALSE, hdr |-> h, crc |-> 0]
    ELSE IF h[image].nSuccess = 0
    THEN [ok |-> TRUE, hdr |-> h, crc |-> 0]
    ELSE IF h[image].nValid = 1
    THEN IF ~checksum_valid(h, d, image)
         THEN [ok |-> FALSE,
               hdr |-> [h EXCEPT ![image].nInvalid = 0],
               crc |-> 1]
         ELSE [ok |-> h[image].nAttempts # 0,
               hdr |-> [h EXCEPT ![image].nValid = 0],
               crc |-> 1]
    ELSE [ok |-> h[image].nAttempts # 0, hdr |-> h, crc |-> 0]

\* _can_boot: result of the eligibility test on `image` in flash h:
\* the returned bool, the flash afterwards, and the number of crc_24 runs
can_boot(h, d, image) ==
    IF h[image].nFailure = 0
    THEN [ok |-> FALSE, hdr |-> h, crc |-> 0]
    ELSE IF h[image].nSuccess = 0
    THEN [ok |-> TRUE, hdr |-> h, crc |-> 0]
    ELSE IF h[image].nValid = 1
    THEN IF h[image].nInvalid = 1
         THEN [ok |-> FALSE, hdr |-> h, crc |-> 0]
         ELSE IF ~checksum_valid(h, d, image)
         THEN [ok |-> FALSE,
               hdr |-> [h EXCEPT ![image].nInvalid = 0],
               crc |-> 1]
         ELSE [ok |-> h[image].nAttempts # 0,
               hdr |-> [h EXCEPT ![image].nValid = 0],
               crc |-> 1]
    ELSE [ok |-> h[image].nAttempts # 0, hdr |-> h, crc |-> 0]

\* the selection made by address alone whenever some image can boot
choose_result_by_address(cba, cbb, x, y) ==
    IF ~cba /\ ~cbb THEN NULL
    ELSE IF x >= y THEN x ELSE y

\* the selection falling through to the first argument when nothing can boot
choose_result_never_null(cba, cbb, x, y) ==
    IF cba /\ ~cbb THEN x
    ELSE IF ~cba /\ cbb THEN y
    ELSE IF cba /\ cbb THEN (IF x >= y THEN x ELSE y)
    ELSE x

\* the selection at the end of switcher_choose
choose_result(cba, cbb, x, y) ==
    IF ~cba /\ ~cbb THEN NULL
    ELSE IF cba /\ ~cbb THEN x
    ELSE IF ~cba /\ cbb THEN y
    ELSE IF x >= y THEN x ELSE y

\* switcher_choose(x, y) on flash h: _can_boot(x), then _can_boot(y), then
\* the selection
switcher_choose(h, d, x, y) ==
    LET ra == can_boot(h, d, x)
        rb == can_boot(ra.hdr, d, y)
    IN [ret |-> choose_result(ra.ok, rb.ok, x, y),
        hdr |-> rb.hdr,
        can_boot_a |-> ra.ok,
        can_boot_b |-> rb.ok,
        crc |-> [i \in Headers |->
                   (IF i = x THEN ra.crc ELSE 0) + (IF i = y THEN rb.crc ELSE 0)]]

\* the attempts write as a rotation: the high bit comes back in at the low end
shift_attempts_rotate(n) ==
    ((n * 2) % AttemptRange) + (n \div (AttemptRange \div 2))

\* the attempts write as a right shift
shift_attempts_right(n) == n \div 2

\* the attempts write shifting a 1 in at the low end
shift_attempts_set_low(n) == ((n * 2) % AttemptRange) + 1

\* the attempts write of switcher_boot: (uint8_t)(nAttempts << 1) stored into
\* the 4-bit field
shift_attempts(n) == (n * 2) % AttemptRange

\* the header write of switcher_boot without the nSuccess test
boot_write_always(h, image) ==
    [h EXCEPT ![image].nAttempts = shift_attempts(h[image].nAttempts)]

\* the header write of switcher_boot on a non-NULL image
boot_write(h, image) ==
    IF h[image].nSuccess = 1
    THEN [h EXCEPT ![image].nAttempts = shift_attempts(h[image].nAttempts)]
    ELSE h

\* ------------------------------------------------------------------------
\* The state machine
\* ------------------------------------------------------------------------
\* the headers the boot ROM can find in flash for the image at address i: the
\* checksum, length and version the flashing tool wrote, any state of the
\* four status bits, and an attempts value of InitAttempts
FlashedImages(i) ==
    [checksum : {StoredChecksum[i]}, version : 1 .. MaxVersion,
     length : {ImageLength[i]},
     nValid : Bit, nInvalid : Bit, nSuccess : Bit, nFailure : Bit,
     nAttempts : InitAttempts]

\* Versions are build identifiers of which the code reads nothing; they are
\* counted from the older of the two images, which has version 1.
Init ==
    /\ \E ha \in FlashedImages(HEADER_ADDR_A), hb \in FlashedImages(HEADER_ADDR_B) :
          /\ ha.version = 1 \/ hb.version = 1
          /\ hdr = [i \in Headers |-> IF i = HEADER_ADDR_A THEN ha ELSE hb]
    /\ \E da \in {0, 1}, db \in {0, 1} :
          body = [i \in Headers |->
                    StoredChecksum[i] + (IF i = HEADER_ADDR_A THEN da ELSE db)]
    /\ pc = "main"
    /\ a = NULL /\ b = NULL
    /\ can_boot_a = FALSE /\ can_boot_b = FALSE
    /\ ret = NULL
    /\ crcRuns = [i \in Headers |-> 0]
    /\ ip = 0
    /\ running = NULL
    /\ boots = [i \in Headers |-> 0]
    /\ verified = [i \in Headers |-> 0]
    /\ flashed = hdr
    /\ lost = "none"

\* the crc_24 invocations so far after n more on each header i
count_crc(v, n) ==
    [i \in Headers |->
       IF v[i] + n[i] > MaxCrcCount THEN MaxCrcCount ELSE v[i] + n[i]]

\* main: switcher_choose(x, y) with the two headers in either argument order
Choose(x, y) ==
    /\ pc = "main"
    /\ x # y
    /\ LET r == switcher_choose(hdr, body, x, y)
       IN /\ hdr' = r.hdr
          /\ can_boot_a' = r.can_boot_a
          /\ can_boot_b' = r.can_boot_b
          /\ ret' = r.ret
          /\ crcRuns' = r.crc
          /\ verified' = count_crc(verified, r.crc)
    /\ a' = x /\ b' = y
    /\ pc' = "boot"
    /\ lost' = "none"
    /\ UNCHANGED <<body, ip, running, boots, flashed>>

\* the header writes of k runs of the boot sequence of switcher_boot (the
\* nSuccess test and the attempts write) on `image`
RECURSIVE boot_repeat(_, _, _)
boot_repeat(h, image, k) ==
    IF k = 0 THEN h ELSE boot_repeat(boot_write(h, image), image, k - 1)

\* the flash after execution has run on past the asm statement of
\* switcher_boot and through more[i] further boot sequences on each header i
fall_through(h, more) ==
    boot_repeat(boot_repeat(h, HEADER_ADDR_A, more[HEADER_ADDR_A]),
                HEADER_ADDR_B, more[HEADER_ADDR_B])

\* the states of the flash that this code can leave: four shifts empty the
\* attempts field, so 0 .. AttemptBits further sequences per header cover
\* every number of them
after_asm(h) ==
    {fall_through(h, more) : more \in [Headers -> 0 .. AttemptBits]}

\* main: switcher_boot(ret); on NULL it returns and main spins forever.
\* On a header it writes the attempts and runs "mov sp, 0; mov ip, start"
\* followed by __builtin_unreachable(). Where control is after the asm
\* statement is not defined by the code:
\*   - the image has been entered at its first byte (what the comment in
\*     switcher_boot says the asm does), or
\*   - no branch was taken (on ARM ip names r12, not the program counter) and
\*     execution ran on past the end of switcher_boot: it came back to main
\*     and its spin, or first fell into the boot sequences that the compiler
\*     laid out next, those of the header that was not chosen included, each
\*     of which shifts the attempts of its header once more, whether that
\*     header was eligible or not. No image is entered in that case.
Boot ==
    /\ pc = "boot"
    /\ IF ret = NULL
       THEN /\ pc' = "halt"
            /\ UNCHANGED <<hdr, ip, running, boots>>
       ELSE /\ boots' = [boots EXCEPT ![ret] = @ + hdr[ret].nSuccess]
            /\ \/ /\ hdr' = boot_write(hdr, ret)
                  /\ ip' = image_start(hdr, ret)
                  /\ running' = ret
                  /\ pc' = "image"
               \/ /\ hdr' \in after_asm(boot_write(hdr, ret))
                  /\ pc' = "halt"
                  /\ UNCHANGED <<ip, running>>
    /\ UNCHANGED <<body, a, b, can_boot_a, can_boot_b, ret, crcRuns, verified,
                   flashed, lost>>

\* the running image marks its own header: switcher_set_success
SetSuccess ==
    /\ pc = "image"
    /\ hdr[running].nSuccess = 1
    /\ hdr' = [hdr EXCEPT ![running].nSuccess = 0]
    /\ UNCHANGED <<body, pc, a, b, can_boot_a, can_boot_b, ret, crcRuns, ip,
                   running, boots, verified, flashed, lost>>

\* the running image marks its own header: switcher_set_failure
SetFailure ==
    /\ pc = "image"
    /\ hdr[running].nFailure = 1
    /\ hdr' = [hdr EXCEPT ![running].nFailure = 0]
    /\ UNCHANGED <<body, pc, a, b, can_boot_a, can_boot_b, ret, crcRuns, ip,
                   running, boots, verified, flashed, lost>>

\* power is cycled while an image runs or while main spins: main starts again
\* with the flash as it is; the locals of the previous run are gone
PowerCycle ==
    /\ pc \in {"image", "halt"}
    /\ pc' = "main"
    /\ a' = NULL /\ b' = NULL
    /\ can_boot_a' = FALSE /\ can_boot_b' = FALSE
    /\ ret' = NULL
    /\ crcRuns' = [i \in Headers |-> 0]
    /\ ip' = 0
    /\ running' = NULL
    /\ lost' = "none"
    /\ UNCHANGED <<hdr, body, boots, verified, flashed>>

Next ==
    \/ \E x \in Headers, y \in Headers : Choose(x, y)
    \/ Boot
    \/ SetSuccess
    \/ SetFailure
    \/ PowerCycle

Spec == Init /\ [][Next]_vars

\* ------------------------------------------------------------------------
\* Power losses inside the choose -> boot sequence
\* ------------------------------------------------------------------------
\* power is lost inside switcher_choose(x, y), before _can_boot(y) has
\* written: main starts again. _can_boot calls crc_24 before it writes, so the
\* loss falls at one of three points:
\*   "crc_a"   crc_24 was invoked on x (if _can_boot(x) verifies), x not written
\*   "wrote_a" _can_boot(x) has run to its end
\*   "crc_b"   as "wrote_a", and crc_24 was invoked on y (if _can_boot(y)
\*             verifies), y not written
PowerLossInChoose(x, y) ==
    /\ pc = "main"
    /\ x # y
    /\ \E point \in {"crc_a", "wrote_a", "crc_b"} :
          LET ra == can_boot(hdr, body, x)
              rb == can_boot(ra.hdr, body, y)
          IN /\ hdr' = IF point = "crc_a" THEN hdr ELSE ra.hdr
             /\ verified' =
                   count_crc(verified,
                             [i \in Headers |->
                                (IF i = x THEN ra.crc ELSE 0)
                                + (IF i = y /\ point = "crc_b"
                                   THEN rb.crc ELSE 0)])
    /\ lost' = "choose"
    /\ UNCHANGED <<body, pc, a, b, can_boot_a, can_boot_b, ret, crcRuns, ip,
                   running, boots, flashed>>

\* power is lost after switcher_choose has returned and before switcher_boot
\* writes anything
PowerLossBeforeBoot ==
    /\ pc = "boot"
    /\ pc' = "main"
    /\ a' = NULL /\ b' = NULL
    /\ can_boot_a' = FALSE /\ can_boot_b' = FALSE
    /\ ret' = NULL
    /\ crcRuns' = [i \in Headers |-> 0]
    /\ lost' = "before_boot"
    /\ UNCHANGED <<hdr, body, ip, running, boots, verified, flashed>>

\* power is lost inside switcher_boot after the attempts write: before the
\* asm statement has run, or in the code execution ran on into after it, at
\* any point of the further boot sequences
PowerLossInBoot ==
    /\ pc = "boot"
    /\ ret # NULL
    /\ hdr' \in after_asm(boot_write(hdr, ret))
    /\ boots' = [boots EXCEPT ![ret] = @ + hdr[ret].nSuccess]
    /\ lost' = "boot"
    /\ pc' = "main"
    /\ a' = NULL /\ b' = NULL
    /\ can_boot_a' = FALSE /\ can_boot_b' = FALSE
    /\ ret' = NULL
    /\ crcRuns' = [i \in Headers |-> 0]
    /\ UNCHANGED <<body, ip, running, verified, flashed>>

NextPower ==
    \/ \E x \in Headers, y \in Headers : Choose(x, y)
    \/ Boot
    \/ SetSuccess
    \/ SetFailure
    \/ PowerCycle
    \/ \E x \in Headers, y \in Headers : PowerLossInChoose(x, y)
    \/ PowerLossBeforeBoot
    \/ PowerLossInBoot

\* the version field is read by none of the steps: the power-loss behaviours
\* are explored for images of one version, found with the full attempt budget
InitPower ==
    /\ Init
    /\ \A i \in Headers : /\ hdr[i].version = 1
                          /\ hdr[i].nAttempts = AttemptRange - 1

SpecPower == InitPower /\ [][NextPower]_vars

TypeOK ==
    /\ hdr \in [Headers -> ImageT]
    /\ pc \in {"main", "boot", "image", "halt"}
    /\ ret \in Headers \cup {NULL}
    /\ running \in Headers \cup {NULL}
    /\ boots \in [Headers -> 0 .. AttemptBits]
    /\ lost \in {"none", "choose", "before_boot", "boot"}
    /\ verified \in [Headers -> 0 .. MaxCrcCount]

\* ------------------------------------------------------------------------
\* Vocabulary of the properties
\* ------------------------------------------------------------------------
\* the step is a call of switcher_choose / of switcher_boot
IsChoose == pc = "main" /\ pc' = "boot"
IsBoot == pc = "boot" /\ pc' \in {"image", "halt"}
\* the verdict of _can_boot on header i in the last switcher_choose call
Eligible(i) == IF a = i THEN can_boot_a ELSE can_boot_b
Other(i) == IF i = HEADER_ADDR_A THEN HEADER_ADDR_B ELSE HEADER_ADDR_A
Intact(i) == checksum_valid(hdr, body, i)

\* ------------------------------------------------------------------------
\* C1: a freshly flashed header (all four latches 1, nAttempts = 0b1111)
\* whose image passes the CRC is found eligible by the first switcher_choose,
\* is returned when the other candidate is ineligible, and keeps its length,
\* version and checksum.
\* ------------------------------------------------------------------------
C1_FreshHeaderEligible ==
    [][IsChoose =>
         \A i \in Headers :
            (Fresh(hdr[i]) /\ Intact(i)) =>
               /\ Eligible(i)'
               /\ (~Eligible(Other(i))' => ret' = i)
               /\ hdr'[i].length = hdr[i].length
               /\ hdr'[i].version = hdr[i].version
               /\ hdr'[i].checksum = hdr[i].checksum]_vars

\* ------------------------------------------------------------------------
\* C2: a header with nSuccess = 1 is treated as bootable by switcher_choose
\* exactly when it is not marked failed, not marked invalid, its checksum is
\* valid and its attempts are nonzero; control is never transferred to a
\* not-yet-succeeded image that violates one of the four conditions.
\* ------------------------------------------------------------------------
DocumentedValid(i) ==
    /\ hdr[i].nFailure = 1
    /\ hdr[i].nInvalid = 1
    /\ Intact(i)
    /\ hdr[i].nAttempts # 0

C2_BootableIffDocumented ==
    [][/\ IsChoose =>
            \A i \in Headers :
               hdr[i].nSuccess = 1 => (Eligible(i)' <=> DocumentedValid(i))
       /\ (IsBoot /\ ret # NULL /\ hdr[ret].nSuccess = 1) =>
            DocumentedValid(ret)]_vars

\* ------------------------------------------------------------------------
\* C3: when both candidates are eligible and their versions differ,
\* switcher_choose returns the one with the higher version, whatever the
\* argument order and the header addresses.
\* ------------------------------------------------------------------------
C3_NewestChosen ==
    (pc = "boot" /\ can_boot_a /\ can_boot_b
       /\ hdr[a].version # hdr[b].version) =>
        /\ ret \in {a, b}
        /\ hdr[ret].version >= hdr[a].version
        /\ hdr[ret].version >= hdr[b].version

C5_SucceededAlwaysEligible ==
    [][\A i \in Headers :
          (hdr[i].nSuccess = 0 /\ hdr[i].nFailure = 1) =>
             /\ IsChoose => /\ Eligible(i)'
                            /\ crcRuns'[i] = 0
                            /\ hdr'[i] = hdr[i]
             /\ IsBoot => /\ hdr'[i] = hdr[i]
                          /\ crcRuns' = crcRuns]_vars

\* a succeeded header with a corrupt image, pending validation latches and no
\* attempts left has been chosen, and switcher_boot has run on it
C5_Witness ==
    \E i \in Headers :
       /\ hdr[i].nSuccess = 0 /\ hdr[i].nFailure = 1
       /\ hdr[i].nAttempts = 0 /\ ~Intact(i)
       /\ hdr[i].nValid = 1 /\ hdr[i].nInvalid = 1
       /\ pc = "halt" /\ ret = i /\ Eligible(i)
       /\ hdr[i] = flashed[i] /\ verified[i] = 0

\* ------------------------------------------------------------------------
\* C6: a header flashed with the full budget 0b1111 whose success latch is
\* never cleared is dispatched by switcher_boot at most AttemptBits = 4
\* times, each of which lowers its attempts; after the 4th dispatch its
\* attempts are 0; with attempts 0 it is never selected by a later
\* switcher_choose; and no dispatch of it changes its nValid / nInvalid.
\* ------------------------------------------------------------------------
NeverSucceeded(i) ==
    flashed[i].nAttempts = AttemptRange - 1 /\ hdr[i].nSuccess = 1

C7_InvalidLatched ==
    [][IsChoose =>
         \A i \in Headers :
            (/\ hdr[i].nFailure = 1 /\ hdr[i].nSuccess = 1
             /\ hdr[i].nValid = 1 /\ hdr[i].nInvalid = 1
             /\ ~Intact(i)) =>
               /\ hdr'[i].nInvalid = 0
               /\ hdr'[i].nValid = 1
               /\ ~Eligible(i)'
               /\ ret' # i]_vars

\* ------------------------------------------------------------------------
\* C8: a second switcher_choose directly after the first returns the same
\* result, leaves the headers as the first call left them and runs the
\* checksum verifier zero times.
\* ------------------------------------------------------------------------
C8_ChooseIdempotent ==
    pc = "boot" =>
        LET again == switcher_choose(hdr, body, a, b)
        IN /\ again.ret = ret
           /\ again.hdr = hdr
           /\ \A i \in Headers : again.crc[i] = 0

\* ------------------------------------------------------------------------
\* C9: when one candidate is eligible and the other is not, switcher_choose
\* returns the eligible one in either argument order, whatever the addresses
\* and versions are.
\* ------------------------------------------------------------------------
C9_OnlyEligibleChosen ==
    pc = "boot" =>
        \A i \in Headers :
           (Eligible(i) /\ ~Eligible(Other(i))) => ret = i

\* the eligible image was the second argument, at the lower address and of
\* the lower version, and the other one was marked failed
C9_Witness ==
    /\ pc = "boot"
    /\ a = HEADER_ADDR_B /\ b = HEADER_ADDR_A
    /\ hdr[a].nFailure = 0 /\ ~can_boot_a /\ can_boot_b
    /\ hdr[b].version < hdr[a].version
    /\ ret = b

\* ------------------------------------------------------------------------
\* C10: when neither candidate is eligible switcher_choose returns NULL;
\* switcher_boot(NULL) changes no header and transfers no control, and main
\* then spins: nothing changes and no image is entered until power is cycled.
\* ------------------------------------------------------------------------
C10_NothingBootable ==
    /\ []((pc = "boot" /\ ~can_boot_a /\ ~can_boot_b) => ret = NULL)
    /\ [][(pc = "boot" /\ ret = NULL) =>
            /\ hdr' = hdr
            /\ pc' = "halt"
            /\ running' = NULL /\ ip' = 0]_vars
    /\ [][pc = "halt" =>
            /\ hdr' = hdr
            /\ running' = NULL /\ ip' = 0
            /\ pc' \in {"halt", "main"}]_vars

\* main spins after a switcher_choose that found nothing bootable
C10_Witness ==
    /\ pc = "halt"
    /\ a # NULL /\ ~can_boot_a /\ ~can_boot_b
    /\ ret = NULL /\ running = NULL
    /\ hdr = flashed
\* ------------------------------------------------------------------------
\* C11: over every sequence of choose, boot, set_success and set_failure
\* steps and power cycles, no latch of a header goes from 0 back to 1, and
\* the attempts of a header flashed with the full budget (a freshly flashed
\* header among them) never increase.
\* ------------------------------------------------------------------------
C11_OneWayLatches ==
    [][\A i \in Headers :
          /\ hdr'[i].nValid <= hdr[i].nValid
          /\ hdr'[i].nInvalid <= hdr[i].nInvalid
          /\ hdr'[i].nSuccess <= hdr[i].nSuccess
          /\ hdr'[i].nFailure <= hdr[i].nFailure
          /\ flashed[i].nAttempts = AttemptRange - 1 =>
                hdr'[i].nAttempts <= hdr[i].nAttempts]_vars

\* a header flashed with the full budget has had nValid cleared by
\* switcher_choose and two attempts consumed by switcher_boot, and the
\* attempts of the other, freshly flashed header have been consumed as well
C11_Witness ==
    \E i \in Headers :
       /\ flashed[i].nAttempts = AttemptRange - 1
       /\ flashed[i].nValid = 1 /\ hdr[i].nValid = 0
       /\ hdr[i].nSuccess = 1 /\ hdr[i].nFailure = 1
       /\ hdr[i].nAttempts = 12 /\ boots[i] = 2
       /\ Fresh(flashed[Other(i)])
       /\ hdr[Other(i)].nAttempts = 8
       /\ pc = "halt"

\* ------------------------------------------------------------------------
\* C12: over the lifetime of a header that starts freshly flashed, through
\* any number of boot cycles, the checksum verifier is invoked for it at most
\* once; once it has been invoked exactly one of nValid and nInvalid is
\* cleared; the two are never both cleared.
\* ------------------------------------------------------------------------
C12_VerifiedOnce ==
    \A i \in Headers :
       Fresh(flashed[i]) =>
          /\ verified[i] <= 1
          /\ verified[i] >= 1 => hdr[i].nValid + hdr[i].nInvalid = 1
          /\ hdr[i].nValid + hdr[i].nInvalid >= 1

\* a freshly flashed header has been a candidate of switcher_choose in three
\* boot cycles or more: the other image was dispatched twice before this call
C12_Witness ==
    \E i \in Headers :
       /\ Fresh(flashed[i])
       /\ pc = "boot" /\ a = i
       /\ boots[Other(i)] = 2
       /\ ~Eligible(i) /\ verified[i] = 0
       /\ hdr[i].nValid = 1 /\ hdr[i].nInvalid = 1

Preferred == choose_result(TRUE, TRUE, HEADER_ADDR_A, HEADER_ADDR_B)

BothStartEligible ==
    \A i \in Headers :
       /\ flashed[i].nAttempts = AttemptRange - 1
       /\ can_boot(flashed, body, i).ok

PreferredNeverMarks ==
    /\ BothStartEligible
    /\ hdr[Preferred].nSuccess = 1
    /\ hdr[Preferred].nFailure = 1

OtherStillBootable ==
    /\ hdr[Other(Preferred)].nFailure = 1
    /\ hdr[Other(Preferred)].nSuccess = 0
          \/ boots[Other(Preferred)] < AttemptBits

ValidatedPending(i) ==
    /\ hdr[i].nFailure = 1 /\ hdr[i].nSuccess = 1
    /\ hdr[i].nValid = 0 /\ hdr[i].nInvalid = 1

C15_ValidatedIneligible ==
    [][IsChoose =>
         \A i \in Headers :
            ValidatedPending(i) => (~Eligible(i)' /\ crcRuns'[i] = 0)]_vars

\* ------------------------------------------------------------------------
\* C15 (amended): such a header is reported eligible by switcher_choose
\* exactly when its attempts are nonzero, without a run of the checksum
\* verifier and without a write to it.
\* ------------------------------------------------------------------------
C15_ValidatedEligibleIffAttempts ==
    [][IsChoose =>
         \A i \in Headers :
            ValidatedPending(i) =>
               /\ Eligible(i)' <=> hdr[i].nAttempts # 0
               /\ crcRuns'[i] = 0
               /\ hdr'[i] = hdr[i]]_vars

\* such a header, found with a corrupt image and attempts left, was evaluated
\* by switcher_choose and returned
C15_Witness ==
    \E i \in Headers :
       /\ pc = "boot" /\ ret = i /\ Eligible(i)
       /\ ValidatedPending(i) /\ flashed[i] = hdr[i]
       /\ hdr[i].nAttempts # 0 /\ ~Intact(i)
       /\ verified[i] = 0

\* ------------------------------------------------------------------------
\* C16: with power losses at any point of the choose -> boot sequence
\* (inside switcher_choose, between switcher_choose and switcher_boot, after
\* the attempts write of switcher_boot, in the code that runs after its asm
\* statement), every step, a power loss included, leaves each header as it
\* was or with one field written the way the code writes it (a latch
\* cleared, the attempts shifted left); no latch is re-armed; a power loss
\* transfers no control; every transfer of control to a not-yet-succeeded
\* image is a dispatch that consumes an attempt of it, and a never-succeeding
\* image has at most 4 dispatches, cut by a power loss or not.
\* ------------------------------------------------------------------------
Fields == {"checksum", "version", "length", "nValid", "nInvalid", "nSuccess",
           "nFailure", "nAttempts"}
ChangedFields(i) == {f \in Fields : hdr'[i][f] # hdr[i][f]}
IsPowerLoss == lost' # "none"
ShiftsOf(n) == {(n * (2 ^ k)) % AttemptRange : k \in 0 .. AttemptBits}

BitOf(n, k) == (n \div (2 ^ k)) % 2
ClearsBitsOnly(old, new) ==
    \A k \in 0 .. AttemptBits - 1 : BitOf(new, k) <= BitOf(old, k)
RunsOfHighBits == {0, 8, 12, 14, 15}

====
